---- MODULE Spec2Model ----
(***************************************************************************)
(* EDM F1 scoring of semantic graphs (src/mrs/eval_edm_json.py).           *)
(*                                                                         *)
(* A Python string is a sequence of one-character strings, so that         *)
(* str.split, str.replace, str(int) and int(str) are computed as Python    *)
(* computes them.  A Python list is a sequence, a Python set a set.        *)
(* Division is Python 3 true division, held exactly as a pair <<n, d>>.    *)
(***************************************************************************)
EXTENDS Integers, Sequences, FiniteSets, TLC

(***************************************************************************)
(* Python string primitives.                                               *)
(***************************************************************************)
Digits == <<"0", "1", "2", "3", "4", "5", "6", "7", "8", "9">>

RECURSIVE NatStr(_)
NatStr(n) ==
  IF n < 10 THEN <<Digits[n + 1]>>
  ELSE NatStr(n \div 10) \o <<Digits[(n % 10) + 1]>>

\* str(n) of a Python int
Str(n) == IF n < 0 THEN <<"-">> \o NatStr(0 - n) ELSE NatStr(n)

DigitVal(c) == CHOOSE d \in 0..9 : Digits[d + 1] = c

IsDigit(c) == \E d \in 1..10 : Digits[d] = c

AllDigits(s) == Len(s) > 0 /\ \A i \in 1..Len(s) : IsDigit(s[i])

\* int(s) succeeds: an optional sign followed by decimal digits
IsIntLit(s) ==
  IF Len(s) > 0 /\ s[1] \in {"-", "+"} THEN AllDigits(Tail(s)) ELSE AllDigits(s)

RECURSIVE NatVal(_)
NatVal(s) ==
  IF Len(s) = 0 THEN 0
  ELSE 10 * NatVal(SubSeq(s, 1, Len(s) - 1)) + DigitVal(s[Len(s)])

\* int(s) where IsIntLit(s)
IntVal(s) ==
  IF s[1] = "-" THEN 0 - NatVal(Tail(s))
  ELSE IF s[1] = "+" THEN NatVal(Tail(s))
  ELSE NatVal(s)

\* s.split(c) for a one-character separator c: every separator cuts, empty
\* pieces are kept
RECURSIVE SplitFrom(_, _, _)
SplitFrom(s, c, cur) ==
  IF Len(s) = 0 THEN <<cur>>
  ELSE IF s[1] = c THEN <<cur>> \o SplitFrom(Tail(s), c, <<>>)
  ELSE SplitFrom(Tail(s), c, Append(cur, s[1]))

Split(s, c) == SplitFrom(s, c, <<>>)

StartsWith(s, p) == Len(p) <= Len(s) /\ SubSeq(s, 1, Len(p)) = p

\* s.replace(old, new) for a non-empty old: leftmost, non-overlapping
RECURSIVE StrReplace(_, _, _)
StrReplace(s, old, new) ==
  IF Len(s) = 0 THEN <<>>
  ELSE IF StartsWith(s, old)
       THEN new \o StrReplace(SubSeq(s, Len(old) + 1, Len(s)), old, new)
       ELSE <<s[1]>> \o StrReplace(Tail(s), old, new)

SP == <<" ">>
COLON == <<":">>
NAME == <<"N", "A", "M", "E">>
CARG == <<"C", "A", "R", "G">>
EQ == <<"/", "E", "Q">>
EQU == <<"/", "E", "Q", "/", "U">>
REL == <<"R", "E", "L">>
ROOT == <<"-", "1", ":", "-", "1", " ", "/", "H", " ">>

\* the elements of a list, as a set
ToSet(seq) == {seq[i] : i \in 1..Len(seq)}

(***************************************************************************)
(* MrsNode and MrsGraph.  A graph is the list of its nodes; an edge names  *)
(* its child by the child's position in that list (1-based here).          *)
(***************************************************************************)
MrsNode(concept, start, end, constant, top, edges, relations) ==
  [concept |-> concept, start |-> start, end |-> end, constant |-> constant,
   top |-> top, edges |-> edges, relations |-> relations]

span_str(node, include_end) ==
  IF include_end THEN Str(node.start) \o COLON \o Str(node.end)
  ELSE Str(node.start) \o COLON \o Str(node.start)

RECURSIVE predicate_bag_from(_, _, _)
predicate_bag_from(nodes, i, include_constants) ==
  IF i > Len(nodes) THEN <<>>
  ELSE <<nodes[i].concept>>
       \o (IF include_constants /\ nodes[i].constant # <<>>
           THEN <<nodes[i].constant>> ELSE <<>>)
       \o predicate_bag_from(nodes, i + 1, include_constants)

predicate_bag(nodes, include_constants) ==
  predicate_bag_from(nodes, 1, include_constants)

RECURSIVE predicate_triples_from(_, _, _, _)
predicate_triples_from(nodes, i, include_constants, include_span_ends) ==
  IF i > Len(nodes) THEN <<>>
  ELSE <<span_str(nodes[i], include_span_ends) \o SP \o NAME \o SP
           \o nodes[i].concept>>
       \o (IF include_constants /\ nodes[i].constant # <<>>
           THEN <<span_str(nodes[i], include_span_ends) \o SP \o CARG \o SP
                    \o nodes[i].constant>>
           ELSE <<>>)
       \o predicate_triples_from(nodes, i + 1, include_constants,
                                 include_span_ends)

predicate_triples(nodes, include_constants, include_span_ends) ==
  predicate_triples_from(nodes, 1, include_constants, include_span_ends)

\* first loop of relation_triples: one root marker per top node
RECURSIVE top_triples(_, _, _)
top_triples(nodes, i, include_span_ends) ==
  IF i > Len(nodes) THEN <<>>
  ELSE (IF nodes[i].top
        THEN <<ROOT \o span_str(nodes[i], include_span_ends)>> ELSE <<>>)
       \o top_triples(nodes, i + 1, include_span_ends)

\* the /EQ edge k of node is emitted with its two spans exchanged
eq_swapped(node, child_node, k) ==
  /\ node.relations[k] = EQ
  /\ \/ node.start > child_node.start
     \/ node.start = child_node.start /\ node.end > child_node.end

\* inner loop of relation_triples over the edges k.. of one node.  node_ind
\* is the loop's variable of that name: it is assigned once before the
\* inner loop and again by every exchange, and is not reset between edges.
RECURSIVE edge_triples(_, _, _, _, _, _)
edge_triples(nodes, node, k, node_ind, include_span_ends, labeled) ==
  IF k > Len(node.edges) THEN <<>>
  ELSE LET child_node == nodes[node.edges[k]]
           child_ind == span_str(child_node, include_span_ends)
           swap == eq_swapped(node, child_node, k)
           ni == IF swap THEN child_ind ELSE node_ind
           ci == IF swap THEN node_ind ELSE child_ind
           rel0 == IF labeled THEN node.relations[k] ELSE REL
           rel == IF rel0 = EQ THEN EQU ELSE rel0
       IN <<ni \o SP \o rel \o SP \o ci>>
          \o edge_triples(nodes, node, k + 1, ni, include_span_ends, labeled)

RECURSIVE node_triples(_, _, _, _)
node_triples(nodes, i, include_span_ends, labeled) ==
  IF i > Len(nodes) THEN <<>>
  ELSE edge_triples(nodes, nodes[i], 1,
                    span_str(nodes[i], include_span_ends),
                    include_span_ends, labeled)
       \o node_triples(nodes, i + 1, include_span_ends, labeled)

relation_triples(nodes, include_span_ends, labeled) ==
  top_triples(nodes, 1, include_span_ends)
  \o node_triples(nodes, 1, include_span_ends, labeled)

\* cfg is the record of compute_f1's keyword parameters
eds_triples(nodes, cfg) ==
  (IF cfg.score_predicates
   THEN IF cfg.include_predicate_spans
        THEN predicate_triples(nodes, cfg.include_constants,
                               cfg.include_span_ends)
        ELSE predicate_bag(nodes, cfg.include_constants)
   ELSE <<>>)
  \o (IF cfg.score_relations
      THEN relation_triples(nodes, cfg.include_span_ends, cfg.labeled)
      ELSE <<>>)

(***************************************************************************)
(* Span helpers of the reconciliation step.                                *)
(***************************************************************************)
\* the spans list_spans adds for one triple
triple_spans(triple) ==
  LET parts == Split(triple, " ")
  IN IF Len(parts) > 1 /\ (parts[2] = NAME \/ parts[2] = CARG)
     THEN {parts[1]}
     ELSE IF Len(parts) > 2 THEN {parts[1], parts[3]} ELSE {}

\* list_spans builds a set; the order of the list made from it is the
\* set's iteration order, which the caller below leaves open
list_spans(triples) == UNION {triple_spans(triples[j]) : j \in 1..Len(triples)}

\* span.split(':')[1] exists and int() accepts it
span_ok(span) ==
  LET parts == Split(span, ":") IN Len(parts) > 1 /\ IsIntLit(parts[2])

shift_end(span, delta) ==
  LET parts == Split(span, ":")
  IN parts[1] \o COLON \o Str(IntVal(parts[2]) + delta)

inc_end_spans(spans) == [i \in 1..Len(spans) |-> shift_end(spans[i], 1)]

dec_end_spans(spans) == [i \in 1..Len(spans) |-> shift_end(spans[i], 0 - 1)]

\* the rewrite condition of replace_new_spans
rewrites(old_span, new_span, gold_spans) ==
  old_span \notin gold_spans /\ new_span \in gold_spans

replace_all(triples, old_span, new_span) ==
  [j \in 1..Len(triples) |-> StrReplace(triples[j], old_span, new_span)]

\* replace_new_spans from position i on; returns the rewritten list
RECURSIVE replace_new_spans(_, _, _, _, _)
replace_new_spans(new_spans, predicted_spans, gold_spans, triples, i) ==
  IF i > Len(new_spans) THEN triples
  ELSE replace_new_spans(new_spans, predicted_spans, gold_spans,
         IF rewrites(predicted_spans[i], new_spans[i], gold_spans)
         THEN replace_all(triples, predicted_spans[i], new_spans[i])
         ELSE triples,
         i + 1)

\* lines 211-212: both passes use the span list taken before any rewrite
reconcile(predicted_triples, predicted_spans, gold_spans) ==
  replace_new_spans(dec_end_spans(predicted_spans), predicted_spans, gold_spans,
    replace_new_spans(inc_end_spans(predicted_spans), predicted_spans,
                      gold_spans, predicted_triples, 1),
    1)

(***************************************************************************)
(* Exact arithmetic for precision, recall and F1.                          *)
(***************************************************************************)
RECURSIVE GCD(_, _)
GCD(a, b) == IF b = 0 THEN a ELSE GCD(b, a % b)

\* n/d in lowest terms, d > 0
Ratio(n, d) == LET g == GCD(n, d) IN <<n \div g, d \div g>>

RMul(x, y) == Ratio(x[1] * y[1], x[2] * y[2])

RAdd(x, y) == Ratio(x[1] * y[2] + y[1] * x[2], x[2] * y[2])

\* x / y for y # 0
RDiv(x, y) == Ratio(x[1] * y[2], x[2] * y[1])

ONE == <<1, 1>>
NoValue == <<>>

(***************************************************************************)
(* The inputs: graphs of the two corpora.                                  *)
(***************************************************************************)
ca == <<"a">>
cb == <<"b">>
ARG1 == <<"A", "R", "G", "1">>
NoConstant == <<>>
\* the constant "3:4" and the constant "x y z", quotes included
kSpan == <<"\"", "3", ":", "4", "\"">>
kWords == <<"\"", "x", " ", "y", " ", "z", "\"">>

GA == << MrsNode(ca, 3, 5, NoConstant, TRUE, <<2>>, <<ARG1>>),
         MrsNode(cb, 13, 3, kSpan, FALSE, <<>>, <<>>) >>
\* GA with the span ends of a tokenization that is off by one
GS == << MrsNode(ca, 3, 4, NoConstant, TRUE, <<2>>, <<ARG1>>),
         MrsNode(cb, 13, 4, kSpan, FALSE, <<>>, <<>>) >>
\* an /EQ edge from the later node to the earlier one, then another edge;
\* the constant has three words
GL == << MrsNode(ca, 13, 4, NoConstant, FALSE, <<2, 2>>, <<EQ, ARG1>>),
         MrsNode(cb, 3, 5, kWords, FALSE, <<>>, <<>>) >>

Graphs == {GA, GS, GL}

\* parse_id not in predicted_graphs
NoGraph == <<>>

\* the keyword parameters of compute_f1 that shape the triples
Configs ==
  [score_predicates : BOOLEAN, score_relations : BOOLEAN,
   include_constants : BOOLEAN, labeled : BOOLEAN,
   include_span_ends : BOOLEAN, include_predicate_spans : BOOLEAN,
   score_nones : BOOLEAN]

\* number of items of the gold corpus
MaxItems == 2

RECURSIVE Orderings(_)
Orderings(S) ==
  IF S = {} THEN {<<>>}
  ELSE UNION {{<<x>> \o o : o \in Orderings(S \ {x})} : x \in S}

(***************************************************************************)
(* One iteration of the loop of compute_f1 (lines 183-233), as a function  *)
(* of the item and the parameters.                                         *)
(***************************************************************************)
\* lines 186-194: the two triple lists of one item
predicted_list(p, c) == IF p # NoGraph THEN eds_triples(p, c) ELSE <<>>

\* gold_list that keeps the gold triples of a missing item whatever score_nones
gold_list_kept(g, p, c) == eds_triples(g, c)

gold_list(g, p, c) ==
  IF p = NoGraph /\ ~c.score_nones THEN <<>> ELSE eds_triples(g, c)

\* line 221
correct_triples(gold_set, predicted_set) == gold_set \cap predicted_set

\* lines 184-219 for the item (g, p): the two extracted triple sets, the
\* lists the reconciliation starts from, whether inc_end_spans accepts every
\* listed span (else it raises IndexError or ValueError), and the predicted
\* sets that the orders of list(spans) can leave after both passes
item(g, p, c) ==
  LET gl == gold_list(g, p, c)
      pl == predicted_list(p, c)
      gold_spans == list_spans(gl)
      ok == \A s \in list_spans(pl) : span_ok(s)
  IN [gold_extracted |-> ToSet(eds_triples(g, c)),
      predicted_extracted |-> ToSet(pl),
      gold |-> ToSet(gl),
      gold_spans |-> gold_spans,
      predicted_spans |-> list_spans(pl),
      spans_ok |-> ok,
      predicted |->
        IF ok
        THEN {ToSet(reconcile(pl, predicted_spans, gold_spans)) :
                predicted_spans \in Orderings(list_spans(pl))}
        ELSE {}]

\* reports_items for the configurations that keep predicate spans
reports_items_spans(v, c) == v /\ c.include_predicate_spans

\* line 225
reports_items(v, c) == v /\ ~c.include_predicate_spans

\* lines 225-229
item_report(v, c, incorrect_predicted, missed_predicted) ==
  IF reports_items(v, c)
  THEN (IF incorrect_predicted # {} THEN {"Incorrect"} ELSE {})
       \cup (IF missed_predicted # {} THEN {"Missed"} ELSE {})
  ELSE {}

\* f1_score without the factor 2
f1_score_unscaled(p, r) == RDiv(RMul(p, r), RAdd(p, r))

\* line 242
f1_score(p, r) == RDiv(RMul(RMul(<<2, 1>>, p), r), RAdd(p, r))

\* run_valid with "or" for "and"
run_valid_either(tp, tg) == tp > 0 \/ tg > 0

\* line 235
run_valid(tp, tg) == tp > 0 /\ tg > 0

(***************************************************************************)
(* compute_f1.                                                             *)
(***************************************************************************)
VARIABLES
  cfg,               \* the keyword parameters of the call but verbose
  verbose,
  items,             \* item(g, p, cfg) of every gold graph g and every
                     \* predicted graph p (or NoGraph) the corpora can hold
  n_items,           \* gold items iterated so far
  gold_g,            \* loop variable: the gold graph of the last item
  predicted_g,       \* predicted_graphs[parse_id] of the last item, or NoGraph
  gold_triples,      \* set(gold_triples) of the last item (line 218)
  predicted_triples, \* set(predicted_triples) of the last item (line 219)
  diag,              \* what lines 225-229 wrote for the last item
  total_gold, total_predicted, total_correct, none_count,
  precision, recall, f1,
  out,               \* what lines 244-247 wrote
  pc,                \* "loop", "done" or the exception that ended the call
  all_equal          \* history: every item so far had a predicted graph
                     \* whose extracted triple set equals the gold one

vars == <<cfg, verbose, items, n_items, gold_g, predicted_g, gold_triples,
          predicted_triples, diag, total_gold, total_predicted, total_correct,
          none_count, precision, recall, f1, out, pc, all_equal>>

Init ==
  /\ cfg \in Configs
  /\ verbose \in BOOLEAN
  /\ items = [g \in Graphs, p \in Graphs \cup {NoGraph} |-> item(g, p, cfg)]
  /\ n_items = 0
  /\ gold_g = NoGraph
  /\ predicted_g = NoGraph
  /\ gold_triples = {}
  /\ predicted_triples = {}
  /\ diag = {}
  /\ total_gold = 0
  /\ total_predicted = 0
  /\ total_correct = 0
  /\ none_count = 0
  /\ precision = NoValue
  /\ recall = NoValue
  /\ f1 = NoValue
  /\ out = {}
  /\ pc = "loop"
  /\ all_equal = TRUE

same_triples(g, p) ==
  p # NoGraph /\ items[g, p].predicted_extracted = items[g, p].gold_extracted

\* one iteration of the loop of line 183 that reaches line 233
Iteration(g, p) ==
  /\ pc = "loop"
  /\ n_items < MaxItems
  /\ items[g, p].spans_ok
  /\ \E ps \in items[g, p].predicted :
       LET gs == items[g, p].gold
           cs == correct_triples(gs, ps)
       IN /\ gold_triples' = gs
          /\ predicted_triples' = ps
          /\ diag' = item_report(verbose, cfg, ps \ cs, gs \ cs)
          /\ total_gold' = total_gold + Cardinality(gs)
          /\ total_predicted' = total_predicted + Cardinality(ps)
          /\ total_correct' = total_correct + Cardinality(cs)
  /\ all_equal' = (all_equal /\ same_triples(g, p))
  /\ none_count' = IF p = NoGraph THEN none_count + 1 ELSE none_count
  /\ n_items' = n_items + 1
  /\ gold_g' = g
  /\ predicted_g' = p
  /\ UNCHANGED <<cfg, verbose, items, precision, recall, f1, out, pc>>

ScoreItem == \E g \in Graphs : \E p \in Graphs \cup {NoGraph} : Iteration(g, p)

\* an iteration that ends in inc_end_spans (line 211): a listed span has no
\* ':' or no integer after it (IndexError, ValueError)
SpanError ==
  /\ pc = "loop"
  /\ n_items < MaxItems
  /\ \E g \in Graphs : \E p \in Graphs :
       /\ ~items[g, p].spans_ok
       /\ gold_g' = g
       /\ predicted_g' = p
       /\ all_equal' = (all_equal /\ same_triples(g, p))
  /\ n_items' = n_items + 1
  /\ pc' = "SpanError"
  /\ UNCHANGED <<cfg, verbose, items, gold_triples, predicted_triples, diag,
                 total_gold, total_predicted, total_correct, none_count,
                 precision, recall, f1, out>>

\* line 235, the assertion fails
AssertionFails ==
  /\ pc = "loop"
  /\ ~run_valid(total_predicted, total_gold)
  /\ pc' = "AssertionError"
  /\ UNCHANGED <<cfg, verbose, items, n_items, gold_g, predicted_g, gold_triples,
                 predicted_triples, diag, total_gold, total_predicted,
                 total_correct, none_count, precision, recall, f1, out,
                 all_equal>>

\* lines 240-242, precision + recall is 0
DivisionByZero ==
  /\ pc = "loop"
  /\ run_valid(total_predicted, total_gold)
  /\ precision' = Ratio(total_correct, total_predicted)
  /\ recall' = Ratio(total_correct, total_gold)
  /\ RAdd(precision', recall')[1] = 0
  /\ pc' = "ZeroDivisionError"
  /\ UNCHANGED <<cfg, verbose, items, n_items, gold_g, predicted_g, gold_triples,
                 predicted_triples, diag, total_gold, total_predicted,
                 total_correct, none_count, f1, out, all_equal>>

\* lines 240-247
ReportScores ==
  /\ pc = "loop"
  /\ run_valid(total_predicted, total_gold)
  /\ precision' = Ratio(total_correct, total_predicted)
  /\ recall' = Ratio(total_correct, total_gold)
  /\ RAdd(precision', recall')[1] # 0
  /\ f1' = f1_score(precision', recall')
  /\ out' = IF verbose THEN {"Precision", "Recall", "F1-score"}
            ELSE {"F1-score"}
  /\ pc' = "done"
  /\ UNCHANGED <<cfg, verbose, items, n_items, gold_g, predicted_g, gold_triples,
                 predicted_triples, diag, total_gold, total_predicted,
                 total_correct, none_count, all_equal>>

Next == ScoreItem \/ SpanError \/ AssertionFails \/ DivisionByZero
        \/ ReportScores

Spec == Init /\ [][Next]_vars

(***************************************************************************)
(* Properties.                                                             *)
(***************************************************************************)
\* the call has ended, by return or by exception
Ended == pc # "loop"

\* the iteration of the last item reached line 233
Scored == n_items > 0 /\ pc # "SpanError"

last_item == items[gold_g, predicted_g]

C2_MissingItem ==
  [][(n_items' = n_items + 1 /\ pc' = "loop" /\ predicted_g' = NoGraph) =>
       /\ total_predicted' = total_predicted
       /\ total_correct' = total_correct
       /\ none_count' = none_count + 1
       /\ total_gold' = total_gold +
            (IF cfg.score_nones
             THEN Cardinality(ToSet(eds_triples(gold_g', cfg))) ELSE 0)]_vars

\* gold ids {1, 2}, predicted ids {1}: the second item counted on the gold
\* side only
C2_Witness ==
  /\ pc = "loop" /\ n_items = 2 /\ none_count = 1 /\ predicted_g = NoGraph
  /\ cfg.score_nones /\ gold_triples # {}
  /\ total_predicted > 0 /\ total_correct = total_predicted
  /\ total_gold = total_predicted + Cardinality(gold_triples)

\* C3: with total_predicted = 0 or total_gold = 0 after the loop, the call
\* ends in the assertion failure of line 235 and nothing else: no precision,
\* recall or F1 is computed and nothing is written.
C3_InvalidRun ==
  (total_predicted = 0 \/ total_gold = 0) =>
    /\ pc \in {"loop", "SpanError", "AssertionError"}
    /\ precision = NoValue /\ recall = NoValue /\ f1 = NoValue /\ out = {}
    /\ pc = "loop" => /\ ENABLED AssertionFails
                      /\ ~ENABLED ReportScores
                      /\ ~ENABLED DivisionByZero

\* an empty predicted corpus against a gold corpus that has triples
C3_Witness ==
  /\ pc = "AssertionError" /\ n_items > 0 /\ none_count = n_items
  /\ total_gold > 0 /\ total_predicted = 0 /\ f1 = NoValue /\ out = {}

\* what lines 225-229 write for the sets of the last item when enabled
expected_report(enabled) ==
  IF enabled
  THEN (IF predicted_triples \ gold_triples # {} THEN {"Incorrect"} ELSE {})
       \cup (IF gold_triples \ predicted_triples # {} THEN {"Missed"} ELSE {})
  ELSE {}

\* C10, as stated: the missed and spurious triples of an item are reported
\* exactly when verbose is true and include_predicate_spans is true.
C10_AsStated == diag = expected_report(verbose /\ cfg.include_predicate_spans)

\* C10, amended: the spurious triples of an item (when there are any) and its
\* missed triples (when there are any) are reported exactly when verbose is
\* true and include_predicate_spans is false; with include_predicate_spans
\* true or verbose false nothing is reported for any item.
C10_ReportsWithoutSpans ==
  diag = expected_report(verbose /\ ~cfg.include_predicate_spans)

\* an item with both missed and spurious labels, reported
C10_Witness ==
  /\ verbose /\ ~cfg.include_predicate_spans /\ pc = "loop"
  /\ predicted_g # NoGraph
  /\ gold_triples \ predicted_triples # {}
  /\ predicted_triples \ gold_triples # {}
  /\ diag = {"Incorrect", "Missed"}

(***************************************************************************)
(* Graph variants and expected triples used by the properties below.       *)
(***************************************************************************)
RECURSIVE Join(_, _)
Join(parts, sep) ==
  IF Len(parts) = 0 THEN <<>>
  ELSE IF Len(parts) = 1 THEN parts[1]
  ELSE parts[1] \o sep \o Join(Tail(parts), sep)

RemoveAt(seq, k) == SubSeq(seq, 1, k - 1) \o SubSeq(seq, k + 1, Len(seq))

InsertAfter(seq, k, x) == SubSeq(seq, 1, k) \o <<x>> \o SubSeq(seq, k + 1, Len(seq))

\* the graph in which the child of edge k of node i carries that edge back
\* to node i instead
reverse_edge(nodes, i, k) ==
  LET j == nodes[i].edges[k]
      rel == nodes[i].relations[k]
      dropped == [nodes EXCEPT ![i].edges = RemoveAt(@, k),
                               ![i].relations = RemoveAt(@, k)]
  IN [dropped EXCEPT ![j].edges = Append(@, i),
                     ![j].relations = Append(@, rel)]

\* the graph in which edge k of node i is listed twice
repeat_edge(nodes, i, k) ==
  [nodes EXCEPT ![i].edges = InsertAfter(@, k, nodes[i].edges[k]),
                ![i].relations = InsertAfter(@, k, nodes[i].relations[k])]

\* the graph with one more node of the span and concept of node i
repeat_node(nodes, i) ==
  Append(nodes, MrsNode(nodes[i].concept, nodes[i].start, nodes[i].end,
                        NoConstant, FALSE, <<>>, <<>>))

EdgesOf(nodes) ==
  {ik \in (1..Len(nodes)) \X (1..2) : ik[2] <= Len(nodes[ik[1]].edges)}

Variants(nodes) ==
  {repeat_edge(nodes, ik[1], ik[2]) : ik \in EdgesOf(nodes)}
  \cup {repeat_node(nodes, i) : i \in 1..Len(nodes)}

\* what an item can add to total_gold, total_predicted and total_correct
Counts(it) ==
  {<<Cardinality(it.gold), Cardinality(ps),
     Cardinality(correct_triples(it.gold, ps))>> : ps \in it.predicted}

RECURSIVE edges_before(_, _)
edges_before(nodes, i) ==
  IF i <= 1 THEN 0 ELSE Len(nodes[i - 1].edges) + edges_before(nodes, i - 1)

\* the place of edge k of node i in the list relation_triples returns
edge_position(nodes, i, k) ==
  Len(top_triples(nodes, 1, TRUE)) + edges_before(nodes, i) + k

\* the span s of a predicted triple meets the rewrite condition of one of
\* the two passes
meets(s, gold_spans) ==
  /\ span_ok(s)
  /\ s \notin gold_spans
  /\ shift_end(s, 1) \in gold_spans \/ shift_end(s, 0 - 1) \in gold_spans

shifted(s, gold_spans) ==
  IF ~meets(s, gold_spans) THEN s
  ELSE IF shift_end(s, 1) \in gold_spans THEN shift_end(s, 1)
  ELSE shift_end(s, 0 - 1)

\* the triple with each of its own spans that meets the condition shifted
reconciled(triple, gold_spans) ==
  LET parts == Split(triple, " ")
      at == IF Len(parts) > 1 /\ (parts[2] = NAME \/ parts[2] = CARG) THEN {1}
            ELSE IF Len(parts) > 2 THEN {1, 3} ELSE {}
  IN Join([n \in 1..Len(parts) |->
             IF n \in at THEN shifted(parts[n], gold_spans) ELSE parts[n]], SP)

\* C4: the graph in which A carries an /EQ edge to B and the graph in which
\* B carries it to A yield the same set of relation triples, whatever other
\* edges A and B have.
C4_EqualityCanonical ==
  (Scored /\ cfg.score_relations /\ gold_triples # {}) =>
    \A ik \in EdgesOf(gold_g) :
      gold_g[ik[1]].relations[ik[2]] = EQ =>
        ToSet(relation_triples(reverse_edge(gold_g, ik[1], ik[2]),
                               cfg.include_span_ends, cfg.labeled))
        = ToSet(relation_triples(gold_g, cfg.include_span_ends, cfg.labeled))

\* C5: a predicted span s:e that is absent from the gold spans while s:(e+1)
\* or s:(e-1) is among them is shifted in every predicted triple that carried
\* it, so that a triple that differed from a gold triple by that end only is
\* counted as correct.
C5_OffByOneRepaired ==
  (Scored /\ predicted_g # NoGraph) =>
    \A t \in last_item.predicted_extracted :
      (\E sp \in triple_spans(t) : meets(sp, last_item.gold_spans)) =>
        /\ reconciled(t, last_item.gold_spans) \in predicted_triples
        /\ reconciled(t, last_item.gold_spans) \in gold_triples =>
             reconciled(t, last_item.gold_spans)
               \in correct_triples(gold_triples, predicted_triples)

\* C6: repeating an edge of a node, or adding a node that repeats the span
\* and concept of another, on the gold or on the predicted side, changes
\* nothing in what the item adds to the three totals.
C6_SetSemantics ==
  (Scored /\ pc = "loop") =>
    /\ \A v \in Variants(gold_g) :
         Counts(item(v, predicted_g, cfg)) = Counts(last_item)
    /\ predicted_g # NoGraph =>
         \A v \in Variants(predicted_g) :
           Counts(item(gold_g, v, cfg)) = Counts(last_item)

\* C7: for every edge of a node n whose label is not /EQ, relation_triples
\* emits (span of n, label or placeholder, span of the target), whatever
\* edges precede it in the edge list of n.
C7_ParentSpan ==
  (Scored /\ cfg.score_relations /\ gold_triples # {}) =>
    \A ik \in EdgesOf(gold_g) :
      LET n == gold_g[ik[1]]
          k == ik[2]
      IN n.relations[k] # EQ =>
           relation_triples(gold_g, cfg.include_span_ends, cfg.labeled)
             [edge_position(gold_g, ik[1], k)]
           = span_str(n, cfg.include_span_ends) \o SP
             \o (IF cfg.labeled THEN n.relations[k] ELSE REL) \o SP
             \o span_str(gold_g[n.edges[k]], cfg.include_span_ends)

\* C8: total_correct never exceeds total_predicted or total_gold, and once
\* the check of line 235 passes a score is produced: precision + recall is
\* not 0.
C8_ScoreProduced ==
  /\ total_correct <= total_predicted /\ total_correct <= total_gold
  /\ (Ended /\ pc # "SpanError" /\ total_predicted > 0 /\ total_gold > 0) =>
       (pc = "done" /\ f1 # NoValue)

\* C9: a predicted triple none of whose own spans meets the rewrite condition
\* is the same string after both passes, whatever other spans of the item
\* are rewritten.
C9_OthersUntouched ==
  (Scored /\ predicted_g # NoGraph) =>
    \A t \in last_item.predicted_extracted :
      (\A sp \in triple_spans(t) : ~meets(sp, last_item.gold_spans)) =>
        t \in predicted_triples

====
